---- MODULE Spec2Model ----
(***************************************************************************)
(* Student Management System (main.py): the SQLite store (students,        *)
(* audit_log, users), the session, the undo/redo stacks, the paginated     *)
(* tree view, import/export and backup/restore, as a state machine.        *)
(*                                                                         *)
(* Text values are sequences of one-character strings, so that strip(),    *)
(* isdigit(), int(), float() and the Tcl value conversion of the tree view *)
(* are computed character by character.                                    *)
(***************************************************************************)
EXTENDS Integers, Sequences, FiniteSets, TLC

\* ------------------------------------------------------------------ bounds
MaxAudit == 5       \* audit_log rows written before the model stops logging
MaxSeq == 2         \* highest AUTOINCREMENT id handed out
MaxBackups == 1     \* backup files written
MaxClock == 3       \* latest clock value an INSERT reads
MaxSessionAudit == 7  \* audit_log rows written in SpecSession

\* ------------------------------------------------------- program constants
PAGE_SIZE_DEFAULT == 50
MaxRollLen == 12
MinMarks == 0
MaxMarks == 100

\* ---------------------------------------------------------- text helpers
Digits == <<"0", "1", "2", "3", "4", "5", "6", "7", "8", "9">>
UpperLetters == <<"A", "B", "C", "E", "K", "L", "M", "N", "O", "R", "S", "U", "Y">>
LowerLetters == <<"a", "b", "c", "e", "k", "l", "m", "n", "o", "r", "s", "u", "y">>

\* the characters of the model's texts, in ASCII order
Alphabet == <<" ", "-", ".">> \o Digits \o UpperLetters \o LowerLetters

DigitSet == {Digits[i] : i \in 1..Len(Digits)}
LetterSet == {UpperLetters[i] : i \in 1..Len(UpperLetters)}
                 \cup {LowerLetters[i] : i \in 1..Len(LowerLetters)}

\* str.isdigit() / str.isalpha() of one character
IsDigitCh(ch) == ch \in DigitSet
IsAlphaCh(ch) == ch \in LetterSet

DigitVal(ch) == (CHOOSE i \in 1..Len(Digits) : Digits[i] = ch) - 1

\* str.lower() of one character (also the ASCII case folding of NOCASE / LIKE)
LowerCh(ch) ==
    IF \E i \in 1..Len(UpperLetters) : UpperLetters[i] = ch
    THEN LowerLetters[CHOOSE i \in 1..Len(UpperLetters) : UpperLetters[i] = ch]
    ELSE ch

Lower(s) == [i \in 1..Len(s) |-> LowerCh(s[i])]

\* str.strip(): drop leading and trailing blanks
RECURSIVE LStrip(_)
LStrip(s) == IF s # <<>> /\ Head(s) = " " THEN LStrip(Tail(s)) ELSE s

RECURSIVE RStrip(_)
RStrip(s) ==
    IF s # <<>> /\ s[Len(s)] = " " THEN RStrip(SubSeq(s, 1, Len(s) - 1)) ELSE s

Strip(s) == RStrip(LStrip(s))

\* str.isdigit(): non-empty and every character a digit
IsDigitStr(s) == s # <<>> /\ \A i \in 1..Len(s) : IsDigitCh(s[i])

\* value of a digit string, as int() computes it (leading zeros vanish)
RECURSIVE DigitsToNat(_)
DigitsToNat(s) ==
    IF s = <<>> THEN 0
    ELSE 10 * DigitsToNat(SubSeq(s, 1, Len(s) - 1)) + DigitVal(s[Len(s)])

\* str(n) of a natural number
RECURSIVE NatToStr(_)
NatToStr(n) ==
    IF n < 10 THEN <<Digits[n + 1]>>
    ELSE Append(NatToStr(n \div 10), Digits[(n % 10) + 1])

\* str(n) of an integer
IntToStr(n) == IF n < 0 THEN <<"-">> \o NatToStr(-n) ELSE NatToStr(n)

\* sign and digits of a signed decimal literal
SignOf(s) == IF s # <<>> /\ Head(s) = "-" THEN -1 ELSE 1
Unsigned(s) == IF s # <<>> /\ Head(s) \in {"-", "+"} THEN Tail(s) ELSE s

\* int(str) succeeds: blanks stripped, optional sign, digits
IsPyInt(s) == IsDigitStr(Unsigned(Strip(s)))
PyInt(s) == SignOf(Strip(s)) * DigitsToNat(Unsigned(Strip(s)))

\* float(str) succeeds for: blanks stripped, optional sign, digits with an
\* optional fraction ("72", "72.0", "-5", ".5", "5.")
DotAt(s) == IF \E i \in 1..Len(s) : s[i] = "."
            THEN CHOOSE i \in 1..Len(s) : s[i] = "." /\ \A j \in 1..(i - 1) : s[j] # "."
            ELSE 0
IntPart(s) == IF DotAt(s) = 0 THEN s ELSE SubSeq(s, 1, DotAt(s) - 1)
FracPart(s) == IF DotAt(s) = 0 THEN <<>> ELSE SubSeq(s, DotAt(s) + 1, Len(s))
AllDigits(s) == \A i \in 1..Len(s) : IsDigitCh(s[i])
IsPyFloat(s) ==
    LET u == Unsigned(Strip(s))
    IN  /\ AllDigits(IntPart(u))
        /\ AllDigits(FracPart(u))
        /\ IntPart(u) \o FracPart(u) # <<>>

\* int(float(str)): truncation toward zero
PyIntOfFloat(s) == SignOf(Strip(s)) * DigitsToNat(IntPart(Unsigned(Strip(s))))

\* rank of a character under NOCASE (upper case folded to lower case)
CharRank(ch) == CHOOSE i \in 1..Len(Alphabet) : Alphabet[i] = LowerCh(ch)

\* a < b under COLLATE NOCASE
RECURSIVE LessNoCase(_, _)
LessNoCase(a, b) ==
    IF b = <<>> THEN FALSE
    ELSE IF a = <<>> THEN TRUE
    ELSE IF CharRank(Head(a)) # CharRank(Head(b))
         THEN CharRank(Head(a)) < CharRank(Head(b))
    ELSE LessNoCase(Tail(a), Tail(b))

EqNoCase(a, b) == Lower(a) = Lower(b)

\* text LIKE '%pat%' (ASCII case-insensitive substring)
Like(text, pat) ==
    \E i \in 1..(Len(text) - Len(pat) + 1) :
        Lower(SubSeq(text, i, i + Len(pat) - 1)) = Lower(pat)

Max(a, b) == IF a >= b THEN a ELSE b
Min(a, b) == IF a <= b THEN a ELSE b

\* ------------------------------------------------------------------ state
VARIABLES
    students,       \* table students: set of rows
    seq,            \* sqlite_sequence of students (largest id ever used)
    audit,          \* table audit_log, in id order
    now,            \* CURRENT_TIMESTAMP as the latest INSERT read it
    current_user,   \* self.current_user
    current_role,   \* self.current_role
    page_size,      \* self.page_size
    current_page,   \* self.current_page
    total_rows,     \* self.total_rows
    search_text,    \* self.search_text
    tree,           \* rows shown by self.tree, in display order
    undo_stack,     \* self.undo_stack
    redo_stack,     \* self.redo_stack
    backups,        \* backup files written by backup_db: sequence of databases
    last            \* the last handler run and what it reported (see Result)

vars == <<students, seq, audit, now, current_user, current_role, page_size,
          current_page, total_rows, search_text, tree, undo_stack, redo_stack,
          backups, last>>

db_vars == <<students, seq, audit>>
view_vars == <<page_size, current_page, total_rows, search_text, tree>>
session_vars == <<current_user, current_role>>

\* Python None for current_user (user names are character sequences)
None == <<"None">>
NoRole == "None"

\* table users as seeded by init_db
users ==
    { [username |-> <<"a", "d", "m", "i", "n">>,
       password |-> <<"a", "d", "m", "i", "n">>, role |-> "Admin"],
      [username |-> <<"t", "e", "a", "c", "h", "e", "r">>,
       password |-> <<"t", "e", "a", "c", "h", "e", "r">>, role |-> "Teacher"] }

Guest == <<"g", "u", "e", "s", "t">>

\* ------------------------------------------------------------- SQL store
MaxId(S) == IF S = {} THEN 0 ELSE CHOOSE m \in {r.id : r \in S} : \A r \in S : r.id <= m

\* SqlInsert had the roll column no UNIQUE constraint
SqlInsert_NoUnique(S, sq, name, roll, course, marks, ts) ==
    LET id == Max(sq, MaxId(S)) + 1
    IN  [ok |-> TRUE,
         students |-> S \cup {[id |-> id, name |-> name, roll |-> roll,
                               course |-> course, marks |-> marks,
                               created_at |-> ts]},
         seq |-> id]

\* SqlInsert written as INSERT OR REPLACE: the row holding the roll is replaced
SqlInsert_OrReplace(S, sq, name, roll, course, marks, ts) ==
    LET id == Max(sq, MaxId(S)) + 1
    IN  [ok |-> TRUE,
         students |-> {r \in S : r.roll # roll}
                        \cup {[id |-> id, name |-> name, roll |-> roll,
                                course |-> course, marks |-> marks,
                                created_at |-> ts]},
         seq |-> id]

\* INSERT INTO students (name,roll,course,marks): AUTOINCREMENT id, created_at
\* CURRENT_TIMESTAMP; IntegrityError when roll is already stored (UNIQUE)
SqlInsert(S, sq, name, roll, course, marks, ts) ==
    IF \E r \in S : r.roll = roll
    THEN [ok |-> FALSE, students |-> S, seq |-> sq]
    ELSE LET id == Max(sq, MaxId(S)) + 1
         IN  [ok |-> TRUE,
              students |-> S \cup {[id |-> id, name |-> name, roll |-> roll,
                                    course |-> course, marks |-> marks,
                                    created_at |-> ts]},
              seq |-> id]

\* SqlInsertRow leaving id out of the INSERT: AUTOINCREMENT assigns a new one
SqlInsertRow_NewId(S, sq, row) ==
    IF \E r \in S : r.roll = row.roll
    THEN [ok |-> FALSE, students |-> S, seq |-> sq]
    ELSE [ok |-> TRUE,
          students |-> S \cup {[row EXCEPT !.id = Max(sq, MaxId(S)) + 1]},
          seq |-> Max(sq, MaxId(S)) + 1]

\* SqlInsertRow written as INSERT OR REPLACE: colliding rows are replaced
SqlInsertRow_Replaces(S, sq, row) ==
    [ok |-> TRUE,
     students |-> {r \in S : r.id # row.id /\ r.roll # row.roll} \cup {row},
     seq |-> Max(sq, row.id)]

\* INSERT INTO students (id,name,roll,course,marks,created_at): IntegrityError
\* when the id (PRIMARY KEY) or the roll (UNIQUE) is already stored
SqlInsertRow(S, sq, row) ==
    IF \E r \in S : r.id = row.id \/ r.roll = row.roll
    THEN [ok |-> FALSE, students |-> S, seq |-> sq]
    ELSE [ok |-> TRUE, students |-> S \cup {row}, seq |-> Max(sq, row.id)]

\* UPDATE students SET name,roll,course,marks WHERE id: IntegrityError when
\* another row holds the roll; no row with that id changes nothing
SqlUpdate(S, id, name, roll, course, marks) ==
    IF (\E r \in S : r.id = id) /\ (\E r \in S : r.id # id /\ r.roll = roll)
    THEN [ok |-> FALSE, students |-> S]
    ELSE [ok |-> TRUE,
          students |-> {IF r.id = id
                        THEN [r EXCEPT !.name = name, !.roll = roll,
                                       !.course = course, !.marks = marks]
                        ELSE r : r \in S}]

SqlDeleteById(S, id) == {r \in S : r.id # id}
SqlDeleteByRoll(S, roll) == {r \in S : r.roll # roll}

\* log_audit: one row appended to audit_log (ts, a column that no statement
\* of the program reads back or compares, is left out of the row)
log_audit(A, user, role, action, details) ==
    Append(A, [user |-> user, role |-> role, action |-> action,
               details |-> details])

\* --------------------------------------------------------------- tree view
\* Treeview.item(...)["values"]: every value comes back through int(str(v)) when
\* that succeeds, else as the text
TclConv(s) == IF IsPyInt(s) THEN [int |-> PyInt(s)] ELSE [str |-> s]

\* a Python value bound to a TEXT column
PyToText(v) == IF "int" \in DOMAIN v THEN IntToStr(v.int) ELSE v.str

\* WHERE roll LIKE ? OR name LIKE ? OR course LIKE ? (build_query_base)
build_query_base(S, search) ==
    IF Strip(search) = <<>> THEN S
    ELSE {r \in S : \/ Like(r.roll, Strip(search))
                    \/ Like(r.name, Strip(search))
                    \/ Like(r.course, Strip(search))}

\* ORDER BY name COLLATE NOCASE, rows of equal name in id order
RowBefore(a, b) ==
    \/ LessNoCase(a.name, b.name)
    \/ EqNoCase(a.name, b.name) /\ a.id < b.id

RECURSIVE OrderByName(_)
OrderByName(S) ==
    IF S = {} THEN <<>>
    ELSE LET first == CHOOSE r \in S : \A o \in S \ {r} : RowBefore(r, o)
         IN  <<first>> \o OrderByName(S \ {first})

TreeRow(r) == [id |-> r.id, name |-> TclConv(r.name), roll |-> TclConv(r.roll),
               course |-> TclConv(r.course), marks |-> r.marks,
               created_at |-> r.created_at]

\* LIMIT ps OFFSET page * ps of the ordered matching rows
PageRows(S, search, page, ps) ==
    LET rows == OrderByName(build_query_base(S, search))
        offset == page * ps
    IN  [i \in 1..Max(0, Min(ps, Len(rows) - offset)) |-> TreeRow(rows[offset + i])]

\* max(1, (total + page_size - 1) // page_size)
total_pages(total, ps) == Max(1, (total + ps - 1) \div ps)

\* load_page(page): the view after the reload; refresh_status() at its end
\* stores COUNT(*) of all students in total_rows
load_page(S, search, page, ps) ==
    [current_page |-> Max(0, page),
     tree |-> PageRows(S, search, Max(0, page), ps),
     total_rows |-> Cardinality(S)]

\* what is recorded of a handler run: the handler, the text of the message box
\* it showed ("" for none), the fields whose error label validate_form set,
\* the count an import reported, the file an export wrote, and the students
\* table the handler started from
Result(op, msg) ==
    [op |-> op, msg |-> msg, errors |-> {}, inserted |-> 0, file |-> <<>>,
     before |-> students]

Init ==
    /\ students = {}
    /\ seq = 0
    /\ audit = <<>>
    /\ now = 0
    /\ current_user = None
    /\ current_role = NoRole
    /\ page_size = PAGE_SIZE_DEFAULT
    /\ current_page = 0
    /\ total_rows = 0
    /\ search_text = <<>>
    /\ tree = <<>>
    /\ undo_stack = <<>>
    /\ redo_stack = <<>>
    /\ backups = <<>>
    /\ last = Result("init", "")

LoggedIn == current_user # None

\* there is room for n more audit rows below the cap
Room(n, cap) == Len(audit) + n <= cap

\* the model stops at MaxAudit audit rows: no handler that may write one runs
CanLog == Room(1, MaxAudit)

\* ------------------------------------------------------------------ login
\* texts typed into the login form: <<username, password>>
Admin == <<"a", "d", "m", "i", "n">>
Teacher == <<"t", "e", "a", "c", "h", "e", "r">>
LoginInputs ==
    { <<Admin, Admin>>, <<Append(Admin, " "), Teacher>>,
      <<<<"A", "d", "m", "i", "n">>, Admin>>, <<Admin, <<" ">>>> }

\* refresh_charts: two read-only queries, then one audit row
refresh_charts(A, user, role) ==
    log_audit(A, user, role, "refresh_charts", <<>>)

\* build_main_ui: a fresh search box, load_page(0), and the refresh_charts of
\* build_reports_tab
build_main_ui(user, role, A) ==
    LET v == load_page(students, <<>>, 0, page_size)
    IN  /\ search_text' = <<>>
        /\ current_page' = v.current_page
        /\ tree' = v.tree
        /\ total_rows' = v.total_rows
        /\ audit' = refresh_charts(A, user, role)

\* handle_login with the username matched without regard to case
handle_login_NoCase(u, p) ==
    /\ ~LoggedIn
    /\ LET user == Strip(u)
           pwd == Strip(p)
           rows == {r \in users : r.username = Lower(user) /\ r.password = pwd}
       IN  IF user = <<>> \/ pwd = <<>>
           THEN /\ last' = Result("handle_login", "Enter username and password")
                /\ UNCHANGED <<db_vars, session_vars, view_vars>>
           ELSE IF rows # {}
           THEN LET row == CHOOSE r \in rows : TRUE
                IN  /\ current_user' = user
                    /\ current_role' = row.role
                    /\ build_main_ui(user, row.role,
                           log_audit(audit, user, row.role, "login",
                                     "successful login"))
                    /\ last' = Result("handle_login", "")
                    /\ UNCHANGED <<students, seq, page_size>>
           ELSE /\ last' = Result("handle_login", "Invalid credentials")
                /\ UNCHANGED <<db_vars, session_vars, view_vars>>
    /\ UNCHANGED <<now, undo_stack, redo_stack, backups>>

handle_login(u, p) ==
    /\ ~LoggedIn
    /\ LET user == Strip(u)
           pwd == Strip(p)
           rows == {r \in users : r.username = user /\ r.password = pwd}
       IN  IF user = <<>> \/ pwd = <<>>
           THEN /\ last' = Result("handle_login", "Enter username and password")
                /\ UNCHANGED <<db_vars, session_vars, view_vars>>
           ELSE IF rows # {}
           THEN LET row == CHOOSE r \in rows : TRUE
                IN  /\ current_user' = user
                    /\ current_role' = row.role
                    /\ build_main_ui(user, row.role,
                           log_audit(audit, user, row.role, "login",
                                     "successful login"))
                    /\ last' = Result("handle_login", "")
                    /\ UNCHANGED <<students, seq, page_size>>
           ELSE /\ last' = Result("handle_login", "Invalid credentials")
                /\ UNCHANGED <<db_vars, session_vars, view_vars>>
    /\ UNCHANGED <<now, undo_stack, redo_stack, backups>>

login_as_guest ==
    /\ ~LoggedIn
    /\ current_user' = Guest
    /\ current_role' = "Guest"
    /\ build_main_ui(Guest, "Guest",
           log_audit(audit, Guest, "Guest", "login", "guest login"))
    /\ last' = Result("login_as_guest", "")
    /\ UNCHANGED <<students, seq, page_size, now, undo_stack, redo_stack, backups>>

\* logout with the session dropped before the log entry is written
logout_ClearsFirst(confirm) ==
    /\ LoggedIn
    /\ IF confirm
       THEN /\ audit' = log_audit(audit, None, NoRole, "logout", "user logged out")
            /\ current_user' = None
            /\ current_role' = NoRole
            /\ tree' = <<>>
            /\ last' = Result("logout", "")
       ELSE UNCHANGED <<audit, current_user, current_role, tree, last>>
    /\ UNCHANGED <<students, seq, now, page_size, current_page, total_rows,
                   search_text, undo_stack, redo_stack, backups>>

\* logout: the confirmation answered yes logs and drops the session; the main
\* window (and its tree) is destroyed
logout(confirm) ==
    /\ LoggedIn
    /\ IF confirm
       THEN /\ audit' = log_audit(audit, current_user, current_role,
                                  "logout", "user logged out")
            /\ current_user' = None
            /\ current_role' = NoRole
            /\ tree' = <<>>
            /\ last' = Result("logout", "")
       ELSE UNCHANGED <<audit, current_user, current_role, tree, last>>
    /\ UNCHANGED <<students, seq, now, page_size, current_page, total_rows,
                   search_text, undo_stack, redo_stack, backups>>

\* ------------------------------------------------------------ manage form
Amy == <<"A", "m", "y">>
Bo == <<"B", "o">>
CS == <<"C", "S">>

\* contents of the form fields m_name, m_roll, m_course, m_marks: forms that
\* pass validation, and one of them with a single field spoiled
BaseForm == [name |-> Amy, roll |-> <<"1">>, course |-> CS, marks |-> <<"9", "0">>]

ValidForms ==
    { BaseForm,
      [BaseForm EXCEPT !.name = Bo, !.roll = <<" ", "0", "7">>,
                       !.marks = <<"1", "0", "0">>] }

InvalidForms ==
    { [BaseForm EXCEPT !.name = <<"A", "1">>],
      [BaseForm EXCEPT !.roll = <<"1", "2", "3", "4", "5", "6", "7", "8", "9",
                                  "0", "1", "2", "3">>],
      [BaseForm EXCEPT !.course = <<" ">>],
      [BaseForm EXCEPT !.marks = <<"1", "5", "0">>],
      [BaseForm EXCEPT !.marks = <<"-", "5">>] }

Forms == ValidForms \cup InvalidForms

\* validate_form: every field is stripped first
NameOk(name) ==
    name # <<>> /\ \A i \in 1..Len(name) : IsAlphaCh(name[i]) \/ name[i] \in {" ", ".", "-"}
RollOk(roll) == roll # <<>> /\ IsDigitStr(roll) /\ Len(roll) <= MaxRollLen
CourseOk(course) == course # <<>>
\* MarksOk with the upper limit left out
MarksOk_NoUpper(marks) == IsDigitStr(marks) /\ MinMarks <= DigitsToNat(marks)

MarksOk(marks) ==
    IsDigitStr(marks) /\ MinMarks <= DigitsToNat(marks) /\ DigitsToNat(marks) <= MaxMarks

validate_form(f) ==
    /\ NameOk(Strip(f.name))
    /\ RollOk(Strip(f.roll))
    /\ CourseOk(Strip(f.course))
    /\ MarksOk(Strip(f.marks))

\* the fields whose error label validate_form sets for form f
FieldErrors(f) ==
    {e \in {"name"} : ~NameOk(Strip(f.name))}
      \cup {e \in {"roll"} : ~RollOk(Strip(f.roll))}
      \cup {e \in {"course"} : ~CourseOk(Strip(f.course))}
      \cup {e \in {"marks"} : ~MarksOk(Strip(f.marks))}

\* the handler stopped at validate_form
Invalid(op, f) ==
    [Result(op, "Fix validation errors first") EXCEPT !.errors = FieldErrors(f)]

\* the view after load_page(self.current_page) on table S
Reload(S) ==
    \E v \in {load_page(S, search_text, current_page, page_size)} :
        /\ current_page' = v.current_page
        /\ tree' = v.tree
        /\ total_rows' = v.total_rows
        /\ UNCHANGED <<page_size, search_text>>

\* CURRENT_TIMESTAMP at the next INSERT: later than at the one before (the
\* model does not cover two INSERTs within one second)
Clock == {t \in {now + 1} : t <= MaxClock}

\* add_student with form f; ts is CURRENT_TIMESTAMP at the INSERT
add_student(f, ts) ==
    /\ LoggedIn
    /\ IF ~validate_form(f)
       THEN /\ last' = Invalid("add_student", f)
            /\ UNCHANGED <<db_vars, now, view_vars, undo_stack, redo_stack>>
       ELSE LET name == Strip(f.name)
                roll == Strip(f.roll)
                course == Strip(f.course)
                marks == DigitsToNat(Strip(f.marks))
            IN  \E ins \in {SqlInsert(students, seq, name, roll, course, marks, ts)} :
                IF ins.ok
                THEN /\ seq < MaxSeq
                     /\ students' = ins.students
                     /\ seq' = ins.seq
                     /\ now' = ts
                     /\ audit' = log_audit(audit, current_user, current_role,
                                           "add", <<roll, name>>)
                     /\ undo_stack' = Append(undo_stack,
                            [action |-> "delete", payload |-> [roll |-> roll]])
                     /\ redo_stack' = <<>>
                     /\ Reload(ins.students)
                     /\ last' = Result("add_student", "Student added successfully")
                ELSE /\ last' = Result("add_student", "Roll number already exists")
                     /\ UNCHANGED <<db_vars, now, view_vars, undo_stack, redo_stack>>
    /\ UNCHANGED <<current_user, current_role, backups>>

\* update_student; sel is the selected tree line, 0 for no selection
update_student(sel, f) ==
    /\ LoggedIn
    /\ IF sel = 0
       THEN /\ last' = Result("update_student", "Select a row to update")
            /\ UNCHANGED <<db_vars, view_vars, undo_stack, redo_stack>>
       ELSE IF ~validate_form(f)
       THEN /\ last' = Invalid("update_student", f)
            /\ UNCHANGED <<db_vars, view_vars, undo_stack, redo_stack>>
       ELSE LET row == tree[sel]
                sid == row.id
                old == [id |-> sid, name |-> row.name, roll |-> row.roll,
                        course |-> row.course, marks |-> row.marks]
                new == [name |-> Strip(f.name), roll |-> Strip(f.roll),
                        course |-> Strip(f.course),
                        marks |-> DigitsToNat(Strip(f.marks))]
            IN  \E upd \in {SqlUpdate(students, sid, new.name, new.roll,
                                        new.course, new.marks)} :
                IF upd.ok
                THEN /\ students' = upd.students
                     /\ audit' = log_audit(audit, current_user, current_role,
                                           "update", <<sid, old, new>>)
                     /\ undo_stack' = Append(undo_stack,
                            [action |-> "update",
                             payload |-> [id |-> sid, old |-> old]])
                     /\ redo_stack' = <<>>
                     /\ Reload(upd.students)
                     /\ last' = Result("update_student", "Record updated")
                     /\ UNCHANGED seq
                ELSE /\ last' = Result("update_student",
                                       "Roll conflicts with another record")
                     /\ UNCHANGED <<db_vars, view_vars, undo_stack, redo_stack>>
    /\ UNCHANGED <<now, current_user, current_role, backups>>

\* DeleteDenied with the role test left out
DeleteDenied_Never(role) == FALSE

\* the permission check of delete_student
DeleteDenied(role) == role = "Guest"

\* delete_student; confirm is the answer to the confirmation dialog (a declined
\* dialog shows no message box and changes nothing)
delete_student(sel, confirm) ==
    /\ LoggedIn
    /\ IF sel = 0
       THEN /\ last' = Result("delete_student", "Select a row to delete")
            /\ UNCHANGED <<db_vars, view_vars, undo_stack, redo_stack>>
       ELSE IF DeleteDenied(current_role)
       THEN /\ last' = Result("delete_student", "Guest cannot delete")
            /\ UNCHANGED <<db_vars, view_vars, undo_stack, redo_stack>>
       ELSE IF ~confirm
       THEN UNCHANGED <<db_vars, view_vars, undo_stack, redo_stack, last>>
       ELSE LET row == tree[sel]
                sid == row.id
            IN  IF \E r \in students : r.id = sid
                THEN LET old == CHOOSE r \in students : r.id = sid
                         S == SqlDeleteById(students, sid)
                     IN  /\ students' = S
                         /\ audit' = log_audit(audit, current_user,
                                               current_role, "delete",
                                               <<sid, row.roll, row.name>>)
                         /\ undo_stack' = Append(undo_stack,
                                [action |-> "insert", payload |-> [row |-> old]])
                         /\ redo_stack' = <<>>
                         /\ Reload(S)
                         /\ last' = Result("delete_student", "Record deleted")
                         /\ UNCHANGED seq
                ELSE /\ last' = Result("delete_student", "Error")
                     /\ UNCHANGED <<db_vars, view_vars, undo_stack, redo_stack>>
    /\ UNCHANGED <<now, current_user, current_role, backups>>

\* ---------------------------------------------------------------- undo/redo
\* the store after the inverse write of an undo entry
ApplyUndo(S, sq, e) ==
    IF e.action = "delete"
    THEN [ok |-> TRUE, students |-> SqlDeleteByRoll(S, e.payload.roll), seq |-> sq]
    ELSE IF e.action = "insert"
    THEN SqlInsertRow(S, sq, e.payload.row)
    ELSE LET old == e.payload.old
             upd == SqlUpdate(S, old.id, PyToText(old.name), PyToText(old.roll),
                              PyToText(old.course), old.marks)
         IN  [ok |-> upd.ok, students |-> upd.students, seq |-> sq]

\* UndoAuditAction logging every undo under one action
UndoAuditAction_Plain(e) == "undo"

UndoAuditAction(e) ==
    IF e.action = "delete" THEN "undo_delete"
    ELSE IF e.action = "insert" THEN "undo_insert"
    ELSE "undo_update"

UndoAuditDetails(e) ==
    IF e.action = "delete" THEN e.payload.roll
    ELSE IF e.action = "insert" THEN IntToStr(e.payload.row.id)
    ELSE IntToStr(e.payload.old.id)

RedoMarker(e) ==
    IF e.action = "delete"
    THEN [action |-> "insert", payload |-> [roll |-> e.payload.roll]]
    ELSE IF e.action = "insert"
    THEN [action |-> "delete", payload |-> [roll |-> e.payload.row.roll]]
    ELSE [action |-> "update_redo", payload |-> [id |-> e.payload.old.id]]

undo_action ==
    /\ LoggedIn
    /\ IF undo_stack = <<>>
       THEN /\ last' = Result("undo_action", "Nothing to undo")
            /\ UNCHANGED <<db_vars, view_vars, undo_stack, redo_stack>>
       ELSE LET e == undo_stack[Len(undo_stack)]
            IN  \E res \in {ApplyUndo(students, seq, e)} :
                /\ undo_stack' = SubSeq(undo_stack, 1, Len(undo_stack) - 1)
                /\ IF res.ok
                   THEN /\ students' = res.students
                        /\ seq' = res.seq
                        /\ audit' = log_audit(audit, current_user,
                                              current_role, UndoAuditAction(e),
                                              UndoAuditDetails(e))
                        /\ redo_stack' = Append(redo_stack, RedoMarker(e))
                        /\ Reload(res.students)
                        /\ last' = Result("undo_action", "Undo performed")
                   ELSE /\ last' = Result("undo_action", "Undo Error")
                        /\ UNCHANGED <<db_vars, view_vars, redo_stack>>
    /\ UNCHANGED <<now, current_user, current_role, backups>>

\* redo_action re-applying a "delete" marker to the store
redo_action_Reapplies ==
    /\ LoggedIn
    /\ IF redo_stack = <<>>
       THEN /\ last' = Result("redo_action", "Nothing to redo")
            /\ UNCHANGED <<students, view_vars, redo_stack>>
       ELSE LET m == redo_stack[Len(redo_stack)]
                S == IF m.action = "delete"
                     THEN SqlDeleteByRoll(students, m.payload.roll)
                     ELSE students
            IN  /\ redo_stack' = SubSeq(redo_stack, 1, Len(redo_stack) - 1)
                /\ students' = S
                /\ Reload(S)
                /\ last' = Result("redo_action", "Redo executed (simple placeholder)")
    /\ UNCHANGED <<seq, audit, now, current_user, current_role, undo_stack, backups>>

redo_action ==
    /\ LoggedIn
    /\ IF redo_stack = <<>>
       THEN /\ last' = Result("redo_action", "Nothing to redo")
            /\ UNCHANGED <<view_vars, redo_stack>>
       ELSE /\ redo_stack' = SubSeq(redo_stack, 1, Len(redo_stack) - 1)
            /\ Reload(students)
            /\ last' = Result("redo_action", "Redo executed (simple placeholder)")
    /\ UNCHANGED <<db_vars, now, current_user, current_role, undo_stack, backups>>

\* ------------------------------------------------------------ import/export
\* pandas' float NaN, the value of a missing cell
NaN == <<"NaN">>

\* cell texts that read_csv(dtype=str) turns into NaN
NAValues == {<<>>, <<"N", "A">>, <<"N", "a", "N">>, <<"n", "a", "n">>}

ReadCell(text) == IF text \in NAValues THEN NaN ELSE text

\* str(cell)
PyStr(cell) == IF cell = NaN THEN <<"n", "a", "n">> ELSE cell

ColName == <<"n", "a", "m", "e">>
ColRoll == <<"r", "o", "l", "l">>
ColCourse == <<"c", "o", "u", "r", "s", "e">>
ColMarks == <<"m", "a", "r", "k", "s">>
Expected == {ColName, ColRoll, ColCourse, ColMarks}

\* read_csv(dtype=str) and the header normalisation c.strip().lower(): the
\* column names, and every data row as a record of its cells by column name
\* (only the expected columns are kept)
read_file(file) ==
    LET cols == [i \in 1..Len(file.header) |-> Lower(Strip(file.header[i]))]
        At(c) == CHOOSE i \in 1..Len(cols) : cols[i] = c
        colset == {cols[i] : i \in 1..Len(cols)}
    IN  [columns |-> colset,
         rows |-> IF Expected \subseteq colset
                  THEN [k \in 1..Len(file.rows) |->
                          [name |-> ReadCell(file.rows[k][At(ColName)]),
                           roll |-> ReadCell(file.rows[k][At(ColRoll)]),
                           course |-> ReadCell(file.rows[k][At(ColCourse)]),
                           marks |-> ReadCell(file.rows[k][At(ColMarks)])]]
                  ELSE <<>>]

\* the values bound to the INSERT for a data row: str() of the name, roll and
\* course cells and int(float()) of the marks cell, which may raise
RowValues(r) ==
    IF r.marks = NaN \/ ~IsPyFloat(r.marks)
    THEN [ok |-> FALSE]
    ELSE [ok |-> TRUE, name |-> PyStr(r.name), roll |-> PyStr(r.roll),
          course |-> PyStr(r.course), marks |-> PyIntOfFloat(r.marks)]

\* ImportRows giving up the rest of the file at the first row that fails
RECURSIVE ImportRows_StopsAtFailure(_, _, _, _, _, _)
ImportRows_StopsAtFailure(df, i, S, sq, inserted, ts) ==
    IF i > Len(df.rows)
    THEN [students |-> S, seq |-> sq, inserted |-> inserted]
    ELSE LET r == df.values[i]
         IN  IF ~r.ok
             THEN [students |-> S, seq |-> sq, inserted |-> inserted]
             ELSE LET ins == CHOOSE x \in {SqlInsert(S, sq, r.name, r.roll,
                                                     r.course, r.marks, ts)} : TRUE
                  IN  IF ins.ok
                      THEN ImportRows_StopsAtFailure(df, i + 1, ins.students,
                                                     ins.seq, inserted + 1, ts)
                      ELSE [students |-> S, seq |-> sq, inserted |-> inserted]

\* the INSERT loop of import_file over rows i..n of the frame: a row whose
\* marks do not parse or whose roll is stored already is skipped
RECURSIVE ImportRows(_, _, _, _, _, _)
ImportRows(df, i, S, sq, inserted, ts) ==
    IF i > Len(df.rows)
    THEN [students |-> S, seq |-> sq, inserted |-> inserted]
    ELSE LET r == df.values[i]
         IN  IF ~r.ok
             THEN ImportRows(df, i + 1, S, sq, inserted, ts)
             ELSE \* the CHOOSE binds the result of the one INSERT
                  LET ins == CHOOSE x \in {SqlInsert(S, sq, r.name, r.roll,
                                                     r.course, r.marks, ts)} : TRUE
                  IN  IF ins.ok
                      THEN ImportRows(df, i + 1, ins.students, ins.seq,
                                      inserted + 1, ts)
                      ELSE ImportRows(df, i + 1, S, sq, inserted, ts)

LowerHeader == <<ColName, ColRoll, ColCourse, ColMarks>>
MixedHeader == <<<<"R", "o", "l", "l">>, <<" ", "N", "A", "M", "E">>,
                 <<"M", "a", "r", "k", "s">>, <<"C", "o", "u", "r", "s", "e">>>>

\* the files offered to import_file
FileAmyBlank ==
    [header |-> LowerHeader,
     rows |-> << <<Amy, <<"1">>, CS, <<"9", "0">>>>,
                 <<<<>>, <<"2">>, CS, <<"8", "0">>>> >>]
FileMixed ==
    [header |-> MixedHeader,
     rows |-> << <<<<"1">>, Bo, <<"a", "b", "c">>, CS>>,
                 <<<<"1">>, Bo, <<"1", "5", "0">>, CS>>,
                 <<<<"1">>, Amy, <<"7", "2", ".", "0">>, CS>> >>]
FileNoMarks ==
    [header |-> <<ColName, ColRoll, ColCourse>>,
     rows |-> << <<Amy, <<"1">>, CS>> >>]

ImportFiles == {FileAmyBlank, FileMixed, FileNoMarks}

\* the frames pandas reads from those files, each with the values its rows
\* bind to the INSERT
Frame(file) ==
    LET df == read_file(file)
    IN  [columns |-> df.columns, rows |-> df.rows,
         values |-> [k \in 1..Len(df.rows) |-> RowValues(df.rows[k])]]

DataFrames == {Frame(file) : file \in ImportFiles}

\* import_file on the frame df read from the chosen file; ts is
\* CURRENT_TIMESTAMP during the INSERT loop
import_file(df, ts) ==
    /\ LoggedIn
    /\ IF ~(Expected \subseteq df.columns)
       THEN /\ last' = Result("import_file", "File missing columns")
            /\ UNCHANGED <<db_vars, now, view_vars>>
       ELSE \E res \in {ImportRows(df, 1, students, seq, 0, ts)} :
            \E v \in {load_page(res.students, search_text, 0, page_size)} :
                /\ res.seq <= MaxSeq
                /\ students' = res.students
                /\ seq' = res.seq
                /\ now' = IF res.inserted > 0 THEN ts ELSE now
                /\ audit' = log_audit(audit, current_user, current_role,
                                      "import", <<res.inserted>>)
                /\ current_page' = v.current_page
                /\ tree' = v.tree
                /\ total_rows' = v.total_rows
                /\ last' = [Result("import_file", "Import complete")
                                EXCEPT !.inserted = res.inserted]
                /\ UNCHANGED <<page_size, search_text>>
    /\ UNCHANGED <<current_user, current_role, undo_stack, redo_stack, backups>>

\* SELECT * FROM students in rowid order
RECURSIVE OrderById(_)
OrderById(S) ==
    IF S = {} THEN <<>>
    ELSE LET first == CHOOSE r \in S : \A o \in S : r.id <= o.id
         IN  <<first>> \o OrderById(S \ {first})

ExportHeader ==
    <<<<"i", "d">>, ColName, ColRoll, ColCourse, ColMarks,
      <<"c", "r", "e", "a", "t", "e", "d", "_", "a", "t">>>>

\* df.to_csv(path, index=False) / df.to_excel(path, index=False) of the frame
\* read from SELECT * FROM students: the header line and one line of cells per
\* row, numbers written in decimal and texts as they are
to_file(S) ==
    LET rows == OrderById(S)
    IN  [header |-> ExportHeader,
         rows |-> [k \in 1..Len(rows) |->
                     <<IntToStr(rows[k].id), rows[k].name, rows[k].roll,
                       rows[k].course, IntToStr(rows[k].marks),
                       IntToStr(rows[k].created_at)>>]]

\* export_csv / export_excel: the table is written to a file and one audit row
\* is appended
export(kind) ==
    /\ LoggedIn
    /\ audit' = log_audit(audit, current_user, current_role, kind, <<>>)
    /\ last' = [Result(kind, "Exported") EXCEPT !.file = to_file(students)]
    /\ UNCHANGED <<students, seq, now, current_user, current_role, view_vars,
                   undo_stack, redo_stack, backups>>

export_csv == export("export_csv")
export_excel == export("export_excel")

\* the Refresh Charts button and show_reports_tab
RefreshCharts ==
    /\ LoggedIn
    /\ audit' = refresh_charts(audit, current_user, current_role)
    /\ last' = Result("refresh_charts", "")
    /\ UNCHANGED <<students, seq, now, current_user, current_role, view_vars,
                   undo_stack, redo_stack, backups>>

\* ----------------------------------------------------------- backup/restore
\* backup_db: the database file is copied, then the backup is logged
backup_db ==
    /\ LoggedIn
    /\ Len(backups) < MaxBackups
    /\ backups' = Append(backups,
                         [students |-> students, seq |-> seq, audit |-> audit])
    /\ audit' = log_audit(audit, current_user, current_role, "backup", <<>>)
    /\ last' = Result("backup_db", "DB backed up")
    /\ UNCHANGED <<students, seq, now, current_user, current_role, view_vars,
                   undo_stack, redo_stack>>

\* restore_db: the chosen file replaces the database file, the restore is
\* logged into the replaced database and the process is started afresh
restore_db(i, confirm) ==
    /\ LoggedIn
    /\ IF ~confirm
       THEN UNCHANGED <<db_vars, session_vars, view_vars, undo_stack, redo_stack,
                        last>>
       ELSE /\ students' = backups[i].students
            /\ seq' = backups[i].seq
            /\ audit' = log_audit(backups[i].audit, current_user,
                                  current_role, "restore", <<>>)
            /\ current_user' = None
            /\ current_role' = NoRole
            /\ page_size' = PAGE_SIZE_DEFAULT
            /\ current_page' = 0
            /\ total_rows' = 0
            /\ search_text' = <<>>
            /\ tree' = <<>>
            /\ undo_stack' = <<>>
            /\ redo_stack' = <<>>
            /\ last' = Result("restore_db", "DB restored. Restarting application.")
    /\ UNCHANGED <<now, backups>>

\* ------------------------------------------------------------------ paging
SearchTexts == {<<>>, <<"a">>}
PageSizes == {1, PAGE_SIZE_DEFAULT}

\* a key release in the search box, and Clear Search: load_page(0)
search(text) ==
    /\ LoggedIn
    /\ LET v == load_page(students, text, 0, page_size)
       IN  /\ search_text' = text
           /\ current_page' = v.current_page
           /\ tree' = v.tree
           /\ total_rows' = v.total_rows
    /\ last' = Result("search", "")
    /\ UNCHANGED <<db_vars, now, current_user, current_role, page_size,
                   undo_stack, redo_stack, backups>>

GoToPage(page) ==
    LET v == load_page(students, search_text, page, page_size)
    IN  /\ current_page' = v.current_page
        /\ tree' = v.tree
        /\ total_rows' = v.total_rows

prev_page ==
    /\ LoggedIn
    /\ IF current_page > 0
       THEN GoToPage(current_page - 1)
       ELSE UNCHANGED <<current_page, tree, total_rows>>
    /\ last' = Result("prev_page", "")
    /\ UNCHANGED <<db_vars, now, current_user, current_role, page_size,
                   search_text, undo_stack, redo_stack, backups>>

next_page ==
    /\ LoggedIn
    /\ IF current_page + 1 < total_pages(total_rows, page_size)
       THEN GoToPage(current_page + 1)
       ELSE UNCHANGED <<current_page, tree, total_rows>>
    /\ last' = Result("next_page", "")
    /\ UNCHANGED <<db_vars, now, current_user, current_role, page_size,
                   search_text, undo_stack, redo_stack, backups>>

\* apply_page_size with a positive size in the entry
apply_page_size(val) ==
    /\ LoggedIn
    /\ LET v == load_page(students, search_text, 0, val)
       IN  /\ page_size' = val
           /\ current_page' = v.current_page
           /\ tree' = v.tree
           /\ total_rows' = v.total_rows
    /\ last' = Result("apply_page_size", "Page size set")
    /\ UNCHANGED <<db_vars, now, current_user, current_role, search_text,
                   undo_stack, redo_stack, backups>>

\* ------------------------------------------------------------ specification
Next ==
    \/ Room(2, MaxAudit) /\ \E c \in LoginInputs : handle_login(c[1], c[2])
    \/ Room(2, MaxAudit) /\ login_as_guest
    \/ CanLog /\ \E c \in BOOLEAN : logout(c)
    \/ CanLog /\ \E f \in Forms, ts \in Clock : add_student(f, ts)
    \/ CanLog /\ \E sel \in 0..Len(tree), f \in Forms : update_student(sel, f)
    \/ CanLog /\ \E sel \in 0..Len(tree), c \in BOOLEAN : delete_student(sel, c)
    \/ CanLog /\ undo_action
    \/ redo_action
    \/ CanLog /\ \E df \in DataFrames, ts \in Clock : import_file(df, ts)
    \/ CanLog /\ export_csv
    \/ CanLog /\ export_excel
    \/ CanLog /\ RefreshCharts
    \/ CanLog /\ backup_db
    \/ \E i \in 1..Len(backups), c \in BOOLEAN : restore_db(i, c)

\* the store, the session and the undo/redo stacks under every handler that
\* writes; the view stays at the default page size with an empty search box,
\* where every stored row can be selected
Spec == Init /\ [][Next]_vars

\* a form whose name is a text that pandas reads as a missing value
NAForm == [BaseForm EXCEPT !.name = <<"N", "A">>, !.roll = <<"2">>]

RoundTripForms == Forms \cup {NAForm}

\* tables built through the validated form, and their export
NextRoundTrip ==
    \/ Room(2, MaxAudit) /\ \E c \in LoginInputs : handle_login(c[1], c[2])
    \/ CanLog /\ \E f \in RoundTripForms, ts \in Clock : add_student(f, ts)
    \/ CanLog /\ \E sel \in 0..Len(tree), f \in RoundTripForms :
                    update_student(sel, f)
    \/ CanLog /\ export_csv

SpecRoundTrip == Init /\ [][NextRoundTrip]_vars

\* the login form filled in with either account, with blanks around the texts
\* and with texts that match no account
LoginInputsAll ==
    LoginInputs \cup
    { <<Teacher, Teacher>>, <<<<" ">> \o Admin, Append(Admin, " ")>>,
      <<Admin, Teacher>>, <<Teacher, <<"T", "e", "a", "c", "h", "e", "r">>>> }

\* the login screen and what a session can reach from it
NextLogin ==
    \/ Room(2, MaxAudit) /\ \E c \in LoginInputsAll : handle_login(c[1], c[2])
    \/ Room(2, MaxAudit) /\ login_as_guest
    \/ CanLog /\ \E c \in BOOLEAN : logout(c)
    \/ CanLog /\ \E f \in Forms, ts \in Clock : add_student(f, ts)
    \/ CanLog /\ \E sel \in 0..Len(tree), c \in BOOLEAN : delete_student(sel, c)

SpecLogin == Init /\ [][NextLogin]_vars

\* sessions one after another in one run of the program, each working on the
\* students table and the undo history
NextSession ==
    \/ Room(2, MaxSessionAudit) /\ handle_login(Admin, Admin)
    \/ Room(2, MaxSessionAudit) /\ login_as_guest
    \/ Room(1, MaxSessionAudit) /\ logout(TRUE)
    \/ Room(1, MaxSessionAudit) /\ \E ts \in Clock : add_student(BaseForm, ts)
    \/ Room(1, MaxSessionAudit) /\ \E sel \in 1..Len(tree), f \in ValidForms :
                                      update_student(sel, f)
    \/ Room(1, MaxSessionAudit) /\ \E sel \in 1..Len(tree) :
                                      delete_student(sel, TRUE)
    \/ Room(1, MaxSessionAudit) /\ undo_action
    \/ redo_action
    \/ Room(1, MaxSessionAudit) /\ \E ts \in Clock :
                                      import_file(Frame(FileMixed), ts)

SpecSession == Init /\ [][NextSession]_vars

\* imports into tables that adds, updates, deletes and undos have prepared
NextImport ==
    \/ Room(2, MaxAudit) /\ handle_login(Admin, Admin)
    \/ CanLog /\ \E f \in ValidForms, ts \in Clock : add_student(f, ts)
    \/ CanLog /\ \E sel \in 1..Len(tree), f \in ValidForms : update_student(sel, f)
    \/ CanLog /\ \E sel \in 1..Len(tree) : delete_student(sel, TRUE)
    \/ CanLog /\ undo_action
    \/ CanLog /\ \E df \in DataFrames, ts \in Clock : import_file(df, ts)

SpecImport == Init /\ [][NextImport]_vars

\* the manage tab with its search box, its page buttons and the page size of
\* the settings tab
NextPaging ==
    \/ Room(2, MaxAudit) /\ \E c \in LoginInputs : handle_login(c[1], c[2])
    \/ CanLog /\ \E f \in Forms, ts \in Clock : add_student(f, ts)
    \/ CanLog /\ \E sel \in 0..Len(tree), f \in Forms : update_student(sel, f)
    \/ CanLog /\ \E sel \in 0..Len(tree), c \in BOOLEAN : delete_student(sel, c)
    \/ CanLog /\ undo_action
    \/ redo_action
    \/ CanLog /\ \E df \in DataFrames, ts \in Clock : import_file(df, ts)
    \/ \E text \in SearchTexts : search(text)
    \/ prev_page
    \/ next_page
    \/ \E val \in PageSizes : apply_page_size(val)

SpecPaging == Init /\ [][NextPaging]_vars

\* -------------------------------------------------------------- properties
RollStored(roll) == \E r \in students : r.roll = roll
RollOfAnother(roll, id) == \E r \in students : r.roll = roll /\ r.id # id

\* the forms offered that pass validate_form
PassingForms == {f \in Forms : validate_form(f)}

UniqueRolls == \A r1, r2 \in students : r1.roll = r2.roll => r1 = r2

\* C1: in every reachable state no two student rows share a roll, and an add
\* or update whose (valid) form carries the roll of another student leaves the
\* students table as it was
C1_RollUnique ==
    /\ []UniqueRolls
    /\ [][/\ last'.op = "add_student" =>
               (\A f \in PassingForms, ts \in Clock :
                  (/\ RollStored(Strip(f.roll))
                   /\ add_student(f, ts))
                      => students' = students)
          /\ last'.op = "update_student" =>
               (\A f \in PassingForms, sel \in 1..Len(tree) :
                  (/\ RollOfAnother(Strip(f.roll), tree[sel].id)
                   /\ update_student(sel, f))
                      => students' = students)]_vars

\* an update was refused for its roll while two students are stored
C1_Witness ==
    /\ last.op = "update_student"
    /\ last.msg = "Roll conflicts with another record"
    /\ Cardinality(students) = 2

\* C2: an add with a valid form succeeds and adds one row when the roll is not
\* stored; when the roll is stored it reports the duplicate-roll error and
\* leaves the table, the undo stack, the redo stack and the audit log alone
C2_DuplicateAdd ==
    [][last'.op = "add_student" =>
        (\A f \in PassingForms, ts \in Clock :
          add_student(f, ts) =>
            IF RollStored(Strip(f.roll))
            THEN /\ last'.msg = "Roll number already exists"
                 /\ students' = students
                 /\ undo_stack' = undo_stack
                 /\ redo_stack' = redo_stack
                 /\ audit' = audit
            ELSE /\ last'.msg = "Student added successfully"
                 /\ Cardinality(students') = Cardinality(students) + 1
                 /\ RollStored(Strip(f.roll))')]_vars

\* the second add of a roll was refused right after the first one succeeded
C2_Witness ==
    /\ last.op = "add_student"
    /\ last.msg = "Roll number already exists"
    /\ Cardinality(students) = 1
    /\ audit[Len(audit)].action = "add"
    /\ Len(undo_stack) = 1

\* C3: a successful delete immediately followed by undo leaves the students
\* table equal to its content before the delete, the deleted row back with
\* every field (id, name, roll, course, marks, created_at) as it was
C3_DeleteUndoRestores ==
    [][(/\ last.op = "delete_student"
        /\ last.msg = "Record deleted"
        /\ undo_action)
          => /\ students' = last.before
             /\ \E r \in students' : r \in last.before /\ r \notin students]_vars

\* an undo has just re-inserted the row that the handler before it deleted
C3_Witness ==
    /\ last.op = "undo_action"
    /\ last.msg = "Undo performed"
    /\ Len(audit) >= 2
    /\ audit[Len(audit)].action = "undo_insert"
    /\ audit[Len(audit) - 1].action = "delete"
    /\ students # {}

\* C4: redo never changes the students table: with a marker on the redo stack
\* it pops exactly that marker and reports success, with an empty redo stack
\* it changes nothing but the message shown
C4_RedoNoOp ==
    [][redo_action =>
         /\ students' = students
         /\ seq' = seq
         /\ audit' = audit
         /\ undo_stack' = undo_stack
         /\ IF redo_stack # <<>>
            THEN /\ redo_stack' = SubSeq(redo_stack, 1, Len(redo_stack) - 1)
                 /\ last'.msg = "Redo executed (simple placeholder)"
            ELSE /\ redo_stack' = redo_stack
                 /\ tree' = tree
                 /\ last'.msg = "Nothing to redo"]_vars

\* a redo reported success right after the undo of a delete, and the students
\* table is still the one the undo left
C4_Witness ==
    /\ last.op = "redo_action"
    /\ last.msg = "Redo executed (simple placeholder)"
    /\ audit[Len(audit)].action = "undo_insert"
    /\ students = last.before
    /\ students # {}

\* C5: while the role is Guest, delete changes neither the students table nor
\* the undo stack, the redo stack or the audit log, whichever row is selected
C5_GuestCannotDelete ==
    [][current_role = "Guest" =>
        (\A sel \in 0..Len(tree), c \in BOOLEAN :
          delete_student(sel, c)
            => /\ students' = students
               /\ undo_stack' = undo_stack
               /\ redo_stack' = redo_stack
               /\ audit' = audit)]_vars

\* a guest was refused the delete of a stored row
C5_Witness ==
    /\ current_role = "Guest"
    /\ last.op = "delete_student"
    /\ last.msg = "Guest cannot delete"
    /\ students # {}
    /\ undo_stack # <<>>

\* the text a file held in a cell of the frame: a missing cell is empty
CellText(c) == IF c = NaN THEN <<>> ELSE c

\* the validation of create applied to a file row, the marks through the
\* numeric parse of import
FileRowValid(r) ==
    /\ NameOk(Strip(CellText(r.name)))
    /\ RollOk(Strip(CellText(r.roll)))
    /\ CourseOk(Strip(CellText(r.course)))
    /\ r.marks # NaN
    /\ IsPyFloat(r.marks)
    /\ PyIntOfFloat(r.marks) >= MinMarks
    /\ PyIntOfFloat(r.marks) <= MaxMarks

\* C6: import inserts a file row only if the row passes the validation of
\* create and its roll is not stored yet; the file with the rows Amy,1,CS,90
\* and (empty name),2,CS,80 imported into an empty table inserts exactly one
\* row and reports inserted=1
C6_ImportValidates ==
    [][\A df \in DataFrames, ts \in Clock :
          import_file(df, ts) =>
            /\ \A s \in students' \ students :
                  \E k \in 1..Len(df.rows) :
                      /\ FileRowValid(df.rows[k])
                      /\ ~RollStored(s.roll)
                      /\ df.values[k].ok
                      /\ s.name = df.values[k].name
                      /\ s.roll = df.values[k].roll
                      /\ s.course = df.values[k].course
                      /\ s.marks = df.values[k].marks
            /\ (df = Frame(FileAmyBlank) /\ students = {})
                  => /\ Cardinality(students') = 1
                     /\ last'.inserted = 1]_vars

\* a stored row satisfies the validation rules of the form
RowValid(r) ==
    /\ NameOk(r.name)
    /\ RollOk(r.roll)
    /\ CourseOk(r.course)
    /\ r.marks \in MinMarks..MaxMarks

\* C7: in every reachable state every stored student has a name of letters,
\* spaces, periods and hyphens, a roll of 1 to 12 digits, a non-empty course
\* and marks in 0..100
C7_StoredRowsValid == \A r \in students : RowValid(r)

\* C8: the audit log only grows at its end: after every step the log of the
\* state before is a prefix of the log of the state after
C8_AuditAppendOnly ==
    [][/\ Len(audit') >= Len(audit)
       /\ \A i \in 1..Len(audit) : audit'[i] = audit[i]]_vars

\* the actions of the audit vocabulary
Vocabulary ==
    {"login", "logout", "add", "update", "delete", "undo_delete", "undo_insert",
     "undo_update", "import", "export_csv", "export_excel", "backup", "restore",
     "refresh_charts"}

\* the messages of an add, update, delete or login that failed
FailureMessages ==
    {"Fix validation errors first", "Roll number already exists",
     "Roll conflicts with another record", "Select a row to update",
     "Select a row to delete", "Guest cannot delete", "Error",
     "Enter username and password", "Invalid credentials"}

\* entry e was written for user and role with an action of the vocabulary
EntryOf(e, user, role) ==
    e.user = user /\ e.role = role /\ e.action \in Vocabulary

\* C9: every step that changes the students table or the session writes at
\* least one audit entry at the end of the log, each entry written in the step
\* carrying the acting user, their role and an action of the vocabulary (a
\* restore writes its entry at the end of the log of the restored file); an
\* add, update, delete or login that fails writes none
C9_ChangesAudited ==
    [][/\ (students' # students \/ current_user' # current_user
              \/ current_role' # current_role)
          => \E user \in {IF LoggedIn THEN current_user ELSE current_user'},
                role \in {IF LoggedIn THEN current_role ELSE current_role'} :
               IF last'.op = "restore_db"
               THEN \E i \in 1..Len(backups) :
                      /\ Len(audit') = Len(backups[i].audit) + 1
                      /\ SubSeq(audit', 1, Len(audit') - 1) = backups[i].audit
                      /\ EntryOf(audit'[Len(audit')], user, role)
                      /\ audit'[Len(audit')].action = "restore"
               ELSE /\ Len(audit') > Len(audit)
                    /\ SubSeq(audit', 1, Len(audit)) = audit
                    /\ \A i \in (Len(audit) + 1)..Len(audit') :
                          EntryOf(audit'[i], user, role)
       /\ (/\ last'.op \in {"add_student", "update_student", "delete_student",
                            "handle_login"}
           /\ last'.msg \in FailureMessages)
          => audit' = audit]_vars

\* an undo has changed the students table and its entry, by the current user,
\* ends the audit log
C9_Witness ==
    /\ last.op = "undo_action"
    /\ last.msg = "Undo performed"
    /\ students # last.before
    /\ audit[Len(audit)].action \in {"undo_delete", "undo_insert", "undo_update"}
    /\ audit[Len(audit)].user = current_user
    /\ audit[Len(audit)].role = current_role

\* the text is an integer outside the range of marks
MarksOutOfRange(text) ==
    IsPyInt(text) /\ (PyInt(text) < MinMarks \/ PyInt(text) > MaxMarks)

\* the forms offered whose marks alone are refused, for being out of range
MarksOutOfRangeForms ==
    {f \in Forms : /\ MarksOutOfRange(Strip(f.marks))
                   /\ NameOk(Strip(f.name))
                   /\ RollOk(Strip(f.roll))
                   /\ CourseOk(Strip(f.course))}

\* C10: an update of a selected row whose form carries marks outside 0..100,
\* the other fields valid, is refused at validation: the students table, the
\* undo stack, the redo stack and the audit log stay as they were
C10_UpdateMarksRejected ==
    [][last'.op = "update_student" =>
        (\A sel \in 1..Len(tree), f \in MarksOutOfRangeForms :
          update_student(sel, f)
            => /\ last'.msg = "Fix validation errors first"
               /\ students' = students
               /\ seq' = seq
               /\ undo_stack' = undo_stack
               /\ redo_stack' = redo_stack
               /\ audit' = audit)]_vars

\* an update was refused for its marks alone while a row was selected and the
\* undo stack held an entry
C10_Witness ==
    /\ last.op = "update_student"
    /\ last.msg = "Fix validation errors first"
    /\ last.errors = {"marks"}
    /\ students # {}
    /\ undo_stack # <<>>
    /\ students = last.before

\* ceil(n / s), and 1 when n = 0
PageCount(n, s) ==
    IF n = 0 THEN 1 ELSE CHOOSE p \in 1..n : (p - 1) * s < n /\ n <= p * s

\* the number of rows that match the search box
Matching == Cardinality(build_query_base(students, search_text))

\* C11: while the main window is shown, the page count load_page computes
\* from the matching rows and the page count next_page computes from
\* total_rows both equal ceil(matching / page_size), 1 when nothing matches
C11_PageCount ==
    LoggedIn =>
      /\ total_pages(Matching, page_size) = PageCount(Matching, page_size)
      /\ total_pages(total_rows, page_size) = PageCount(Matching, page_size)

\* C18: while the main window is shown, the page index lies in
\* 0..totalPages-1 for the rows matching the search box and the page size
C18_PageInRange ==
    LoggedIn =>
      /\ 0 <= current_page
      /\ current_page <= PageCount(Matching, page_size) - 1

\* the (name, roll, course, marks) tuples of a table
Tuples(S) == {<<r.name, r.roll, r.course, r.marks>> : r \in S}

\* the table import_file builds in an empty store from a file
ImportedIntoEmpty(file) == ImportRows(Frame(file), 1, {}, 0, 0, now + 1).students

\* C12: after an export of a table built through the validated add and
\* update, importing the exported file into an empty store gives a table with
\* the same (name, roll, course, marks) tuples
C12_ExportImportRoundTrip ==
    last.op = "export_csv"
      => Tuples(ImportedIntoEmpty(last.file)) = Tuples(students)

\* the accounts whose username and password are exactly u and p
Accounts(u, p) == {r \in users : r.username = u /\ r.password = p}

\* a step of one of the handlers of the main window
MainOperation ==
    \/ \E f \in Forms, ts \in Clock : add_student(f, ts)
    \/ \E sel \in 0..Len(tree), c \in BOOLEAN : delete_student(sel, c)
    \/ \E c \in BOOLEAN : logout(c)

\* what login gives for the texts u and p looked up as the accounts rows
LoginOutcome(u(_), p(_)) ==
    /\ \A c \in LoginInputsAll :
          handle_login(c[1], c[2]) =>
            IF Accounts(u(c), p(c)) # {}
            THEN /\ current_user' = u(c)
                 /\ \E r \in Accounts(u(c), p(c)) : current_role' = r.role
            ELSE /\ current_user' = None
                 /\ current_role' = NoRole
    /\ login_as_guest => current_user' = Guest /\ current_role' = "Guest"
    /\ MainOperation => LoggedIn

UserTyped(c) == c[1]
PwdTyped(c) == c[2]
UserStripped(c) == Strip(c[1])
PwdStripped(c) == Strip(c[2])

\* C13 as stated: login creates a session iff an account has exactly the
\* username and the password typed, with that account's role, and leaves the
\* session absent otherwise; guest entry gives user guest and role Guest; the
\* handlers of the main window run only within a session
C13_ExactCredentials == [][LoginOutcome(UserTyped, PwdTyped)]_vars

\* C13: login creates a session iff an account has exactly the username and
\* the password typed once the blanks around each are stripped, the session
\* user being the stripped username and the role that account's role, and
\* leaves the session absent otherwise; guest entry gives user guest and role
\* Guest; the handlers of the main window run only within a session
C13_StrippedCredentials == [][LoginOutcome(UserStripped, PwdStripped)]_vars

\* the teacher has logged in and holds the role of the teacher account
C13_Witness ==
    /\ last.op = "handle_login"
    /\ last.msg = ""
    /\ current_user = Teacher
    /\ current_role = "Teacher"
    /\ audit[Len(audit) - 1].action = "login"
    /\ audit[Len(audit) - 1].user = Teacher

\* the handlers that push an undo entry, and the messages of their success
Writers == {"add_student", "update_student", "delete_student"}
WriterDone == {"Student added successfully", "Record updated", "Record deleted"}

\* C14: a successful add, update or delete pushes exactly one entry onto the
\* undo stack and a failed one pushes none; an undo taken right after a
\* successful add, update or delete (the case n = 1) returns the students
\* table to its content before that operation, all fields included, and the
\* undo stack to its depth before it
C14_UndoReturnsToStart ==
    [][/\ (last'.op \in Writers /\ last'.msg \in WriterDone)
            => /\ Len(undo_stack') = Len(undo_stack) + 1
               /\ SubSeq(undo_stack', 1, Len(undo_stack)) = undo_stack
       /\ (last'.op \in Writers /\ last'.msg \notin WriterDone)
            => undo_stack' = undo_stack
       /\ (last.op \in Writers /\ last.msg \in WriterDone /\ undo_action)
            => /\ students' = last.before
               /\ Len(undo_stack') = Len(undo_stack) - 1]_vars

\* C15: the count an import reports is the number of rows by which the
\* students table grew, and no failing row keeps a later row out: after the
\* import every roll of a file row whose marks parse is stored
C15_ImportCountsAndContinues ==
    [][last'.op = "import_file" =>
        (\A df \in DataFrames, ts \in Clock :
            (import_file(df, ts) /\ Expected \subseteq df.columns) =>
              /\ last'.inserted = Cardinality(students') - Cardinality(students)
              /\ students \subseteq students'
              /\ \A k \in 1..Len(df.rows) :
                    df.values[k].ok =>
                      \E r \in students' : r.roll = df.values[k].roll)]_vars

\* an import has inserted the row that follows a row with unparsable marks,
\* and skipped the row after it for its roll
C15_Witness ==
    /\ last.op = "import_file"
    /\ last.inserted = 1
    /\ last.before = {}
    /\ \E r \in students : r.name = Bo /\ r.marks = 150

\* C16: an undo that applies an entry appends exactly one audit entry, with
\* action undo_delete, undo_insert or undo_update, and pushes exactly one
\* marker onto the redo stack; an undo on an empty undo stack reports that
\* there is nothing to undo and changes neither the students table, the
\* stacks nor the audit log
C16_UndoLogsAndMarks ==
    [][undo_action =>
        IF undo_stack = <<>>
        THEN /\ last'.msg = "Nothing to undo"
             /\ students' = students
             /\ undo_stack' = undo_stack
             /\ redo_stack' = redo_stack
             /\ audit' = audit
        ELSE last'.msg = "Undo performed" =>
               /\ Len(audit') = Len(audit) + 1
               /\ SubSeq(audit', 1, Len(audit)) = audit
               /\ audit'[Len(audit')].action
                    \in {"undo_delete", "undo_insert", "undo_update"}
               /\ Len(redo_stack') = Len(redo_stack) + 1
               /\ SubSeq(redo_stack', 1, Len(redo_stack)) = redo_stack
               /\ undo_stack' = SubSeq(undo_stack, 1, Len(undo_stack) - 1)]_vars

\* an undo has applied the entry of an update: its audit entry ends the log
\* and its marker tops the redo stack
C16_Witness ==
    /\ last.op = "undo_action"
    /\ last.msg = "Undo performed"
    /\ audit[Len(audit)].action = "undo_update"
    /\ redo_stack # <<>>
    /\ redo_stack[Len(redo_stack)].action = "update_redo"

\* the handlers of the manage tab that the claim on guests names
GuestOperations ==
    {"add_student", "update_student", "delete_student", "undo_action",
     "redo_action"}

\* C17: an add, update, delete, undo or redo of a guest session removes no
\* row that was stored when the session began; stated for the first such
\* operation of the session, every id stored at guest login is stored after it
C17_GuestRemovesNothing ==
    [][(/\ last.op = "login_as_guest"
        /\ current_role = "Guest"
        /\ last'.op \in GuestOperations)
          => \A r \in students : \E k \in students' : k.id = r.id]_vars

\* the write that undoes entry e collides with a stored row: the re-insert
\* with a stored id or roll, the restore of old values with the roll of
\* another row
Collides(e) ==
    \/ /\ e.action = "insert"
       /\ \E r \in students : \/ r.id = e.payload.row.id
                              \/ r.roll = e.payload.row.roll
    \/ /\ e.action = "update"
       /\ \E r \in students : r.id = e.payload.old.id
       /\ \E r \in students : /\ r.id # e.payload.old.id
                              /\ r.roll = PyToText(e.payload.old.roll)

\* C19: an undo whose write collides with a stored row reports the error and
\* leaves the students table, the redo stack and the audit log as they were,
\* while the undo stack has lost its top entry
C19_FailedUndoPops ==
    [][(/\ undo_action
        /\ undo_stack # <<>>
        /\ Collides(undo_stack[Len(undo_stack)]))
          => /\ last'.msg = "Undo Error"
             /\ students' = students
             /\ seq' = seq
             /\ redo_stack' = redo_stack
             /\ audit' = audit
             /\ undo_stack' = SubSeq(undo_stack, 1, Len(undo_stack) - 1)]_vars

\* the undo of a delete has failed on the roll that a later import took: the
\* table is the one before the undo and holds that roll
C19_Witness ==
    /\ last.op = "undo_action"
    /\ last.msg = "Undo Error"
    /\ students = last.before
    /\ students # {}
    /\ Len(audit) >= 2
    /\ audit[Len(audit)].action = "import"
    /\ audit[Len(audit) - 1].action = "delete"

====
